---- MODULE Spec2Model ----
(***************************************************************************)
(* Verification subsystem of the gatekeeper bot: the verification_states   *)
(* token table, the CAS callback (bot/services/cas_service.py and          *)
(* bot/web/app.py), the verification profile and role preservation         *)
(* (bot/services/verification_service.py) and the commands that issue      *)
(* tokens (bot/cogs/verification.py, bot/cogs/verification_admin.py).      *)
(*                                                                         *)
(* Conventions.  A nullable column is a set with at most one element       *)
(* (Null is the empty set).  A table is a function whose domain is the set *)
(* of primary keys that have a row.  Strings that the code inspects        *)
(* (lower(), substring tests) are sequences of one-character strings.      *)
(* Time is counted in minutes.  sha256 is modelled as an injective tagged  *)
(* tuple of its inputs.                                                    *)
(***************************************************************************)
EXTENDS Integers, Sequences, FiniteSets, TLC

\* ---------------------------------------------------------------- bounds
NumSubjects == 2
MaxTokens == 3
RaceTokens == 2
NumProcs == 2
TickStep == 15
AdminTokens == 2
FaultTokens == 2
MaxAudit == 2
MaxWords == 2
PairTokens == 2
LiveTokens == 2
MaxHolders == 57

\* ------------------------------------------------------ program constants
verification_state_expiry_minutes == 15
reverification_window_days == 14
reverification_daily_batch_percent == 7

MaxTime == TickStep

Subjects == 1 .. NumSubjects
Procs == 1 .. NumProcs
Tickets == {"ST-1"}

HomeGuild == "guild"
OtherGuild == "other-guild"
Guilds == {HomeGuild, OtherGuild}

everyone_role == "everyone"
student_role_id == "student"
teacher_role_id == "teacher"
admin_role_id == "admin"
moderator_role_id == "moderator"
host_role_id == "host"
absolvent_role_id == "absolvent"

Null == {}
Some(x) == {x}
TheOne(S) == CHOOSE x \in S : TRUE

Reasons == {"Manual admin request"}

ErrInvalidState == "Invalid or expired verification state"
ErrTicket == "Failed to validate CAS ticket"
ErrMissingTicket == "Missing authentication ticket"
ErrMissingState == "Invalid authentication state"
ErrInternal == "Internal server error during authentication"
ExcAuditWrite == "database error while writing the audit record"
ExcStore == "database error while reading or deleting the token record"
NoError == ""

\* ----------------------------------------------------------------- state
VARIABLES
    now,        \* wall clock, minutes
    users,      \* table users: discord_id -> row
    profiles,   \* table user_verification_data: discord_id -> row
    states,     \* table verification_states: set of rows (key: state hash)
    audit,      \* table verification_audit: sequence of rows, in id order
    present,    \* members of the home guild
    roles,      \* roles held by each member of the home guild
    issued,     \* history: raw token -> arguments of the issuing call
    cb,         \* per callback request: position and local variables
    hist,       \* history: tokens whose row a call deleted (redeemed), tokens
                \* whose ticket validation failed, and per subject the roles
                \* held before the first pending reverify request (prior)
    classified, \* the last call of _determine_user_type: arguments and result
    wave        \* the re-verification wave that was created, if any

vars == <<now, users, profiles, states, audit, present, roles, issued, cb, hist,
          classified, wave>>

\* ------------------------------------------------------------ pure helpers
LowerChar(c) ==
    CASE c = "S" -> "s"
      [] c = "T" -> "t"
      [] c = "K" -> "k"
      [] c = "F" -> "f"
      [] OTHER -> c

\* str.lower()
Lower(s) == [i \in 1 .. Len(s) |-> LowerChar(s[i])]

\* the Python test `kw in s` on strings
Contains(s, kw) ==
    \E i \in 1 .. (Len(s) - Len(kw) + 1) : SubSeq(s, i, i + Len(kw) - 1) = kw

teacher_affiliations ==
    << <<"e","m","p","l","o","y","e","e">>, <<"f","a","c","u","l","t","y">>,
       <<"s","t","a","f","f">>, <<"t","e","a","c","h","e","r">> >>

teacher_groups ==
    << <<"e","m","p","l","o","y","e","e","s">>, <<"s","t","a","f","f">>,
       <<"f","a","c","u","l","t","y">>, <<"t","e","a","c","h","e","r","s">> >>

AnyKeyword(s, kws) == \E k \in 1 .. Len(kws) : Contains(Lower(s), kws[k])

\* a classification that compares without lower()
AnyKeywordCaseSensitive(s, kws) == \E k \in 1 .. Len(kws) : Contains(s, kws[k])

_determine_user_type_case_sensitive(groups, affiliations) ==
    IF \E i \in 1 .. Len(affiliations) :
          AnyKeywordCaseSensitive(affiliations[i], teacher_affiliations)
    THEN 2
    ELSE IF \E i \in 1 .. Len(groups) :
               AnyKeywordCaseSensitive(groups[i], teacher_groups)
         THEN 2
         ELSE 0

_determine_user_type(groups, affiliations) ==
    IF \E i \in 1 .. Len(affiliations) : AnyKeyword(affiliations[i], teacher_affiliations)
    THEN 2
    ELSE IF \E i \in 1 .. Len(groups) : AnyKeyword(groups[i], teacher_groups)
         THEN 2
         ELSE 0

\* sha256(f"{state}:{discord_id}:{state_secret}")
StateHash(state, discord_id) == <<"sha256", state, discord_id>>
\* sha256(ticket)
TicketHash(ticket) == <<"sha256", ticket>>
\* state[:64] of a 43-character token_urlsafe(32) value: the raw token
StatePrefix(state) == <<"raw", state>>

\* Provider answers that validate_cas_ticket parses into a user_info dict.
CasResponses ==
    << [login |-> <<"n","1">>, cn |-> "Jan Novak", mail |-> "n1@vsb.cz",
        groups |-> << >>,
        eduPersonAffiliation |-> << <<"s","t","u","d","e","n","t">> >>],
       [login |-> <<"K","2">>, cn |-> "Eva Kral", mail |-> "k2@vsb.cz",
        groups |-> << <<"s","t","u","d","e","n","t","s">> >>,
        eduPersonAffiliation |-> << <<"F","a","c","u","l","t","y">> >>] >>

IdleCb ==
    [pc |-> "idle", state |-> 0, ticket |-> "", matching |-> Null,
     cas |-> 0, nAudit |-> 0, granted |-> {}, sync |-> "none",
     status |-> 0, success |-> FALSE, error |-> NoError]

InitHist == [redeemed |-> {}, failed |-> {}, prior |-> [s \in Subjects |-> Null]]

Init ==
    /\ now = 0
    /\ users = << >>
    /\ profiles = << >>
    /\ states = {}
    /\ audit = << >>
    /\ present = {}
    /\ roles = [s \in Subjects |-> {}]
    /\ issued = << >>
    /\ cb = [p \in Procs |-> IdleCb]
    /\ hist = InitHist
    /\ classified = Null
    /\ wave = Null

\* ----------------------------------------------------------- environment
Tick ==
    /\ now + TickStep <= MaxTime
    /\ now' = now + TickStep
    /\ UNCHANGED <<users, profiles, states, audit, present, roles, issued, cb, hist,
                 classified, wave>>

\* UserEventsCog.on_member_join
on_member_join(s) ==
    /\ s \notin present
    /\ present' = present \cup {s}
    /\ roles' = [roles EXCEPT ![s] = {everyone_role}]
    /\ users' = IF s \in DOMAIN users THEN users
                ELSE users @@ (s :> [login |-> <<"discord_", ToString(s)>>, activity |-> 0, type |-> 0])
    /\ UNCHANGED <<now, profiles, states, audit, issued, cb, hist,
                 classified, wave>>

\* roles that exist in the home guild (guild.get_role finds exactly these)
GuildRoleIds ==
    {everyone_role, student_role_id, teacher_role_id, admin_role_id,
     moderator_role_id, host_role_id, absolvent_role_id}

get_role(role_id) == role_id \in GuildRoleIds

\* ------------------------------------------------------------ token store
\* CASService.generate_verification_url, lines 76-91: the row that is added
NewState(state, discord_id, guild_id, is_reverification, t) ==
    [state |-> StateHash(state, discord_id),
     discord_id |-> discord_id,
     guild_id |-> guild_id,
     is_initial |-> ~is_reverification,
     expires_at |-> t + verification_state_expiry_minutes]

\* the foreign key verification_states.discord_id -> users.discord_id
CanIssue(discord_id) == discord_id \in DOMAIN users

\* an issue that keeps one record per subject and replaces the earlier one
IssuedStatesOnePerSubject(discord_id, guild_id, is_reverification) ==
    {vs \in states : vs.discord_id # discord_id}
        \cup {NewState(Len(issued) + 1, discord_id, guild_id, is_reverification, now)}

\* CASService.generate_verification_url: new table and new history
IssuedStates(discord_id, guild_id, is_reverification) ==
    states \cup {NewState(Len(issued) + 1, discord_id, guild_id, is_reverification, now)}

IssuedHistory(discord_id, guild_id, is_reverification) ==
    Append(issued, [discord_id |-> discord_id, guild_id |-> guild_id,
                    is_reverification |-> is_reverification, issued_at |-> now])

\* an is_verified that looks at the existence of the profile only
is_verified_profile_only(discord_id) == discord_id \in DOMAIN profiles

\* VerificationService.is_verified
is_verified(discord_id) ==
    /\ discord_id \in DOMAIN profiles
    /\ ~profiles[discord_id].reverification_required

\* VerificationService.requires_reverification (the first component)
requires_reverification(discord_id) ==
    /\ discord_id \in DOMAIN profiles
    /\ profiles[discord_id].reverification_required

\* VerificationCog.handle_verification_button
handle_verification_button(s, g) ==
    /\ g = HomeGuild => s \in present
    /\ IF is_verified(s)
       THEN UNCHANGED <<states, issued>>
       ELSE /\ CanIssue(s)
            /\ states' = IssuedStates(s, g, requires_reverification(s))
            /\ issued' = IssuedHistory(s, g, requires_reverification(s))
    /\ UNCHANGED <<now, users, profiles, audit, present, roles, cb, hist,
                 classified, wave>>

\* --------------------------------------------------- forced re-verification
\* an is_admin that accepts every caller who holds some role
is_admin_any_role(callerRoles) == callerRoles # {}

\* is_admin(user, config), verification_admin.py lines 28-31
is_admin(callerRoles) ==
    \E r \in callerRoles : r \in {admin_role_id, moderator_role_id}

protected_roles == {admin_role_id, moderator_role_id, host_role_id, absolvent_role_id}

\* a preserve_roles that creates the missing profile
preserve_roles_upsert(profs, s, memberRoles, t) ==
    IF s \notin DOMAIN profs
    THEN profs @@ (s :> [cas_login |-> <<"discord_", ToString(s)>>,
                         cas_real_name |-> "", cas_email |-> "",
                         verified_at |-> t, last_reverified_at |-> t,
                         reverification_required |-> FALSE,
                         reverification_reason |-> Null,
                         reverification_wave_id |-> Null,
                         preserved_roles |->
                             Some([role_ids |-> memberRoles \ {everyone_role}])])
    ELSE [profs EXCEPT ![s].preserved_roles =
              Some([role_ids |-> memberRoles \ {everyone_role}])]

\* VerificationService.preserve_roles: the profile table afterwards
preserve_roles(profs, s, memberRoles, t) ==
    IF s \notin DOMAIN profs THEN profs
    ELSE [profs EXCEPT ![s].preserved_roles =
              Some([role_ids |-> memberRoles \ {everyone_role}])]

\* VerificationService.require_reverification: the profile table afterwards
require_reverification(profs, s, reason, wave_id, t) ==
    IF s \notin DOMAIN profs THEN profs
    ELSE [profs EXCEPT ![s].reverification_required = TRUE,
                       ![s].reverification_reason = Some(reason),
                       ![s].reverification_wave_id = wave_id]

\* VerificationService.require_reverification: what the caller gets back.
\* Line 303 is a bare return after the warning and the normal path falls off
\* the end of the function: None in both cases, and nothing is raised.
require_reverification_result(profs, s) ==
    IF s \notin DOMAIN profs THEN "None" ELSE "None"

\* a role given to a member by hand in the guild; the command reads the
\* outcome as user.roles (verification_admin.py line 78)
member_update(s, r) ==
    /\ s \in present
    /\ r \notin roles[s]
    /\ roles' = [roles EXCEPT ![s] = @ \cup {r}]
    /\ UNCHANGED <<now, users, profiles, states, audit, present, issued, cb, hist,
                 classified, wave>>

\* a removal list that spares only the everyone role
roles_to_remove_unprotected(memberRoles) ==
    {r \in memberRoles : r # everyone_role}

\* VerificationAdminCog.reverify_user, lines 77-80
roles_to_remove(memberRoles) ==
    {r \in memberRoles : r # everyone_role /\ r \notin protected_roles}

\* VerificationAdminCog.reverify_user in the home guild
reverify_user(callerRoles, s, reason) ==
    /\ s \in present
    /\ IF ~is_admin(callerRoles)
       THEN UNCHANGED <<profiles, roles, states, issued, hist>>
       ELSE /\ CanIssue(s)
            /\ profiles' = require_reverification(
                               preserve_roles(profiles, s, roles[s], now),
                               s, reason, Null, now)
            /\ roles' = [roles EXCEPT ![s] = roles[s] \ roles_to_remove(roles[s])]
            /\ states' = IssuedStates(s, HomeGuild, TRUE)
            /\ issued' = IssuedHistory(s, HomeGuild, TRUE)
            /\ hist' = IF is_verified(s) /\ hist.prior[s] = Null
                       THEN [hist EXCEPT !.prior[s] = Some(roles[s] \ {everyone_role})]
                       ELSE hist
    /\ UNCHANGED <<now, users, audit, present, cb,
                 classified, wave>>

CallerRoleSets ==
    {{everyone_role}, {everyone_role, admin_role_id}, {everyone_role, moderator_role_id}}

\* ------------------------------------------------------- the CAS callback
\* a select that also returns the rows expiring at this very instant
NonExpiredStatesInclusive(t) == {vs \in states : vs.expires_at >= t}

\* a select without the expiry filter
AllStoredStates(t) == states

\* CASService.handle_callback, lines 126-131: the rows the select returns
NonExpiredStates(t) == {vs \in states : vs.expires_at > t}

\* a comparison of the recomputed hash with itself
HashMatchesAny(state, vs) ==
    StateHash(state, vs.discord_id) = StateHash(state, vs.discord_id)

\* CASService.handle_callback, lines 137-145: the test of one candidate row
HashMatches(state, vs) == StateHash(state, vs.discord_id) = vs.state

MatchingStates(state, t) == {vs \in NonExpiredStates(t) : HashMatches(state, vs)}

\* a delete that is never flushed
DeleteStateNothing(table, matching) == table

\* a delete with the filter inverted
DeleteStateInverted(table, matching) == table \cap matching

\* CASService.handle_callback, lines 155-156: delete the matched row, commit
\* (a DELETE that matches no row any more only emits a warning)
DeleteState(table, matching) == table \ matching

\* a web handler that answers every failure with 500
FinishInternal(p, status, error) ==
    [cb EXCEPT ![p].pc = "done", ![p].status = 500, ![p].error = error]

Finish(p, status, error) ==
    [cb EXCEPT ![p].pc = "done", ![p].status = status, ![p].error = error]

\* a handle_callback that deletes the expired rows when it finds no match
CallbackSelectPurges(p, ticket, state) ==
    /\ cb[p].pc = "idle"
    /\ LET c == [IdleCb EXCEPT !.ticket = ticket, !.state = state] IN
       IF ticket = ""
       THEN /\ cb' = [cb EXCEPT ![p] = [c EXCEPT !.pc = "done", !.status = 400,
                                                  !.error = ErrMissingTicket]]
            /\ states' = states
       ELSE IF state = 0
       THEN /\ cb' = [cb EXCEPT ![p] = [c EXCEPT !.pc = "done", !.status = 400,
                                                  !.error = ErrMissingState]]
            /\ states' = states
       ELSE IF MatchingStates(state, now) = {}
       THEN /\ cb' = [cb EXCEPT ![p] = [c EXCEPT !.pc = "done", !.status = 400,
                                                  !.error = ErrInvalidState]]
            /\ states' = NonExpiredStates(now)
       ELSE /\ \E vs \in MatchingStates(state, now) :
                  cb' = [cb EXCEPT ![p] = [c EXCEPT !.pc = "delete",
                                                    !.matching = Some(vs)]]
            /\ states' = states
    /\ UNCHANGED <<now, users, profiles, audit, present, roles, issued, hist,
                 classified, wave>>

\* OAuthWebServer.handle_callback lines 63-95 and CASService.handle_callback
\* lines 120-152: parameter checks, then the select and the search for the row
CallbackSelect(p, ticket, state) ==
    /\ cb[p].pc = "idle"
    /\ LET c == [IdleCb EXCEPT !.ticket = ticket, !.state = state] IN
       IF ticket = ""
       THEN cb' = [cb EXCEPT ![p] = [c EXCEPT !.pc = "done", !.status = 400,
                                               !.error = ErrMissingTicket]]
       ELSE IF state = 0
       THEN cb' = [cb EXCEPT ![p] = [c EXCEPT !.pc = "done", !.status = 400,
                                               !.error = ErrMissingState]]
       ELSE IF MatchingStates(state, now) = {}
       THEN cb' = [cb EXCEPT ![p] = [c EXCEPT !.pc = "done", !.status = 400,
                                               !.error = ErrInvalidState]]
       ELSE \E vs \in MatchingStates(state, now) :
               cb' = [cb EXCEPT ![p] = [c EXCEPT !.pc = "delete",
                                                 !.matching = Some(vs)]]
    /\ UNCHANGED <<now, users, profiles, states, audit, present, roles, issued, hist,
                 classified, wave>>

\* CASService.handle_callback, lines 151-156
CallbackDelete(p) ==
    /\ cb[p].pc = "delete"
    /\ states' = DeleteState(states, cb[p].matching)
    /\ cb' = [cb EXCEPT ![p].pc = "validate"]
    /\ hist' = [hist EXCEPT !.redeemed = @ \cup {cb[p].state}]
    /\ UNCHANGED <<now, users, profiles, audit, present, roles, issued,
                 classified, wave>>

\* what the provider can do with a validation request, other than answer
\* authenticationSuccess: a failure document, a body that is not XML, a
\* connection error, no answer within the 15 s timeout
ProviderFailures == {"authenticationFailure", "malformed", "network", "timeout"}

ProviderSuccess(i) == [kind |-> "authenticationSuccess", answer |-> i]
ProviderFailure(f) == [kind |-> f, answer |-> 0]

\* CASService.validate_cas_ticket: the user_info dict, or None on the failure
\* document (line 229), on ParseError (262) and on any other exception (265)
validate_cas_ticket(b) ==
    IF b.kind = "authenticationSuccess" THEN Some(CasResponses[b.answer])
    ELSE Null

\* CASService.handle_callback lines 159-162: what the caller is told about
\* the validation
TicketResult(b) ==
    IF validate_cas_ticket(b) = Null
    THEN [success |-> FALSE, error |-> ErrTicket]
    ELSE [success |-> TRUE, error |-> NoError]

\* ------------------------------------------------------------ the URLs
\* A URL is the sequence of its pieces; the separators : / ? = & are pieces
\* of their own.  The three configured addresses:
service_url == <<"https", ":", "/", "/", "gatekeeper", "/", "auth", "/", "callback">>
cas_login_url == <<"https", ":", "/", "/", "cas", "/", "login">>
cas_validate_url == <<"https", ":", "/", "/", "cas", "/", "serviceValidate">>

\* the raw token as the string put into a URL: token_urlsafe yields letters,
\* digits, - and _ only
TokenText(state) == ToString(state)

\* urllib.parse.quote_plus on one piece
QuotePiece(c) ==
    CASE c = ":" -> "%3A"
      [] c = "/" -> "%2F"
      [] c = "?" -> "%3F"
      [] c = "=" -> "%3D"
      [] c = "&" -> "%26"
      [] OTHER -> c

\* the decoding of one piece of a query string by its receiver
UnquotePiece(c) ==
    CASE c = "%3A" -> ":"
      [] c = "%2F" -> "/"
      [] c = "%3F" -> "?"
      [] c = "%3D" -> "="
      [] c = "%26" -> "&"
      [] OTHER -> c

Quote(u) == [k \in 1 .. Len(u) |-> QuotePiece(u[k])]
Unquote(u) == [k \in 1 .. Len(u) |-> UnquotePiece(u[k])]

\* urllib.parse.urlencode of a list of (key, value) pairs
RECURSIVE urlencode(_)
urlencode(params) ==
    IF params = << >> THEN << >>
    ELSE LET one == <<Head(params)[1], "=">> \o Quote(Head(params)[2])
         IN  IF Len(params) = 1 THEN one
             ELSE one \o <<"&">> \o urlencode(Tail(params))

\* generate_verification_url, line 94: the service of the login URL
LoginService(state) == service_url \o <<"?", "state", "=", TokenText(state)>>

\* generate_verification_url, lines 95-96
auth_url(state) ==
    cas_login_url \o <<"?">> \o urlencode(<< <<"service", LoginService(state)>> >>)

\* a validation that names the service without its state parameter
ValidateServiceBare(state) == service_url

\* validate_cas_ticket, line 208: the service of the validation request
ValidateService(state) == service_url \o <<"?", "state", "=", TokenText(state)>>

\* validate_cas_ticket, lines 209-210
validate_url(ticket, state) ==
    cas_validate_url \o <<"?">>
        \o urlencode(<< <<"ticket", <<ticket>> >>, <<"service", ValidateService(state)>> >>)

\* the provider's reading of a request URL: the pieces after the first ?
QueryOf(url) ==
    LET q == CHOOSE k \in 1 .. Len(url) :
                 url[k] = "?" /\ \A j \in 1 .. (k - 1) : url[j] # "?"
    IN  SubSeq(url, q + 1, Len(url))

\* the provider's reading of a request URL: the decoded value of parameter key
ParamOf(url, key) ==
    LET query == QueryOf(url)
        at == CHOOSE k \in 1 .. (Len(query) - 1) :
                  /\ query[k] = key /\ query[k + 1] = "="
                  /\ k = 1 \/ query[k - 1] = "&"
        stops == {k \in (at + 2) .. Len(query) : query[k] = "&"}
        last == IF stops = {} THEN Len(query)
                ELSE (CHOOSE k \in stops : \A j \in stops : k <= j) - 1
    IN  Unquote(SubSeq(query, at + 2, last))

\* a handle_callback that goes on after a failed validation
CallbackValidateContinues(p, answers) ==
    /\ cb[p].pc = "validate"
    /\ \/ \E i \in answers :
             /\ cb' = [cb EXCEPT ![p].pc = "audit", ![p].cas = i]
             /\ hist' = hist
       \/ \E f \in ProviderFailures :
             /\ cb' = [cb EXCEPT ![p].pc = "audit", ![p].cas = 1]
             /\ hist' = [hist EXCEPT !.failed = @ \cup {cb[p].state}]
    /\ UNCHANGED <<now, users, profiles, states, audit, present, roles, issued,
                 classified, wave>>


\* CASService.validate_cas_ticket and handle_callback lines 159-162
CallbackValidate(p, answers) ==
    /\ cb[p].pc = "validate"
    /\ \/ \E i \in answers :
             /\ TicketResult(ProviderSuccess(i)).success
             /\ cb' = [cb EXCEPT ![p].pc = "audit", ![p].cas = i]
             /\ hist' = hist
       \/ \E f \in ProviderFailures :
             /\ ~TicketResult(ProviderFailure(f)).success
             /\ cb' = Finish(p, 400, TicketResult(ProviderFailure(f)).error)
             /\ hist' = [hist EXCEPT !.failed = @ \cup {cb[p].state}]
    /\ UNCHANGED <<now, users, profiles, states, audit, present, roles, issued,
                 classified, wave>>

\* CASService._log_verification_audit: the row that is added
AuditRow(discord_id, login, state_hash, ticket, result, error_message) ==
    [discord_id |-> discord_id, login |-> login, state_sha256 |-> state_hash,
     ticket_sha256 |-> TicketHash(ticket), result |-> result,
     error_message |-> error_message]

\* a handle_callback whose except branch lets the failure of its own audit
\* write escape to the web handler
CallbackAuditRaises(p, dbOutcomes) ==
    /\ cb[p].pc = "audit"
    /\ LET m == TheOne(cb[p].matching) IN
       \E db \in dbOutcomes :
          IF db = "ok"
          THEN /\ audit' = Append(audit, AuditRow(Some(m.discord_id),
                                                  CasResponses[cb[p].cas].login,
                                                  m.state, cb[p].ticket, "success", Null))
               /\ cb' = [cb EXCEPT ![p].pc = "save", ![p].success = TRUE,
                                   ![p].nAudit = @ + 1]
          ELSE IF db = "first write fails"
          THEN /\ audit' = Append(audit, AuditRow(Null, <<"unknown">>,
                                                  StatePrefix(cb[p].state),
                                                  cb[p].ticket, "failure",
                                                  Some(ExcAuditWrite)))
               /\ cb' = [cb EXCEPT ![p].pc = "done", ![p].status = 400,
                                   ![p].error = ExcAuditWrite, ![p].nAudit = @ + 1]
          ELSE /\ audit' = audit
               /\ cb' = Finish(p, 500, ErrInternal)
    /\ UNCHANGED <<now, users, profiles, states, present, roles, issued, hist,
                 classified, wave>>

\* CASService.handle_callback lines 164-201: the success audit record; when
\* its write raises, the except branch tries a failure record and returns
\* the exception text
CallbackAudit(p, dbOutcomes) ==
    /\ cb[p].pc = "audit"
    /\ LET m == TheOne(cb[p].matching) IN
       \E db \in dbOutcomes :
          IF db = "ok"
          THEN /\ audit' = Append(audit, AuditRow(Some(m.discord_id),
                                                  CasResponses[cb[p].cas].login,
                                                  m.state, cb[p].ticket, "success", Null))
               /\ cb' = [cb EXCEPT ![p].pc = "save", ![p].success = TRUE,
                                   ![p].nAudit = @ + 1]
          ELSE /\ audit' = IF db = "first write fails"
                           THEN Append(audit, AuditRow(Null, <<"unknown">>,
                                                       StatePrefix(cb[p].state),
                                                       cb[p].ticket, "failure",
                                                       Some(ExcAuditWrite)))
                           ELSE audit
               /\ cb' = [cb EXCEPT ![p].pc = "done", ![p].status = 400,
                                   ![p].error = ExcAuditWrite,
                                   ![p].nAudit = IF db = "first write fails"
                                                 THEN @ + 1 ELSE @]
    /\ UNCHANGED <<now, users, profiles, states, present, roles, issued, hist,
                 classified, wave>>

DbOutcomes == {"ok", "first write fails", "both writes fail"}

\* CASService.handle_callback lines 184-201: an exception raised by the store
\* inside the try block ends in the except branch, which tries to write a
\* failure record (a failure of that write is swallowed) and returns the
\* exception text
ExceptBranch(p, c, auditOk) ==
    /\ audit' = IF auditOk
                THEN Append(audit, AuditRow(Null, <<"unknown">>, StatePrefix(c.state),
                                            c.ticket, "failure", Some(ExcStore)))
                ELSE audit
    /\ cb' = [cb EXCEPT ![p] = [c EXCEPT !.pc = "done", !.status = 400,
                                         !.error = ExcStore,
                                         !.nAudit = IF auditOk THEN @ + 1 ELSE @]]

\* CASService.handle_callback lines 122-131: the session or the select raises
CallbackSelectFails(p, ticket, state) ==
    /\ cb[p].pc = "idle"
    /\ ticket # ""
    /\ state # 0
    /\ \E auditOk \in BOOLEAN :
          ExceptBranch(p, [IdleCb EXCEPT !.ticket = ticket, !.state = state], auditOk)
    /\ UNCHANGED <<now, users, profiles, states, present, roles, issued, hist,
                 classified, wave>>

\* CASService.handle_callback lines 155-156: the delete or its commit raises;
\* get_session rolls back, the row stays stored
CallbackDeleteFails(p) ==
    /\ cb[p].pc = "delete"
    /\ \E auditOk \in BOOLEAN : ExceptBranch(p, cb[p], auditOk)
    /\ UNCHANGED <<now, users, profiles, states, present, roles, issued, hist,
                 classified, wave>>

\* CASService.handle_callback, lines 144-152 and 176-182: the values returned
\* on success and used by the web handler
CallbackResult(vs) ==
    [discord_id |-> vs.discord_id, guild_id |-> vs.guild_id,
     is_reverification |-> ~vs.is_initial]

\* ------------------------------------------------ persisting the outcome
\* VerificationService.save_verification_data, lines 94-118: the users table
SavedUsers(discord_id, resp) ==
    LET row == [login |-> Lower(resp.login), activity |-> 1,
                type |-> _determine_user_type(resp.groups, resp.eduPersonAffiliation)]
    IN  IF discord_id \in DOMAIN users
        THEN [users EXCEPT ![discord_id] = row]
        ELSE users @@ (discord_id :> row)

\* a save that inserts the profile when there is none and otherwise leaves
\* the stored one as it is
SavedProfilesKeepFirst(discord_id, resp, is_reverification, t) ==
    IF discord_id \notin DOMAIN profiles
    THEN profiles @@ (discord_id :>
             [cas_login |-> Lower(resp.login),
              cas_real_name |-> resp.cn,
              cas_email |-> resp.mail,
              verified_at |-> t,
              last_reverified_at |-> t,
              reverification_required |-> FALSE,
              reverification_reason |-> Null,
              reverification_wave_id |-> Null,
              preserved_roles |-> Null])
    ELSE profiles

\* a save that leaves the timestamps of a new profile at their zero value
SavedProfilesNoStamp(discord_id, resp, is_reverification, t) ==
    IF discord_id \notin DOMAIN profiles
    THEN profiles @@ (discord_id :>
             [cas_login |-> Lower(resp.login),
              cas_real_name |-> resp.cn,
              cas_email |-> resp.mail,
              verified_at |-> 0,
              last_reverified_at |-> 0,
              reverification_required |-> FALSE,
              reverification_reason |-> Null,
              reverification_wave_id |-> Null,
              preserved_roles |-> Null])
    ELSE LET upd == [profiles EXCEPT ![discord_id].cas_login = Lower(resp.login),
                                     ![discord_id].cas_real_name = resp.cn,
                                     ![discord_id].cas_email = resp.mail,
                                     ![discord_id].last_reverified_at = t]
         IN  IF is_reverification
             THEN [upd EXCEPT ![discord_id].reverification_required = FALSE,
                              ![discord_id].reverification_reason = Null,
                              ![discord_id].reverification_wave_id = Null]
             ELSE upd

\* a save that marks an existing profile when the token was an initial one
SavedProfilesMarksInitial(discord_id, resp, is_reverification, t) ==
    IF discord_id \notin DOMAIN profiles
    THEN profiles @@ (discord_id :>
             [cas_login |-> Lower(resp.login),
              cas_real_name |-> resp.cn,
              cas_email |-> resp.mail,
              verified_at |-> t,
              last_reverified_at |-> t,
              reverification_required |-> FALSE,
              reverification_reason |-> Null,
              reverification_wave_id |-> Null,
              preserved_roles |-> Null])
    ELSE [profiles EXCEPT ![discord_id].cas_login = Lower(resp.login),
                          ![discord_id].cas_real_name = resp.cn,
                          ![discord_id].cas_email = resp.mail,
                          ![discord_id].last_reverified_at = t,
                          ![discord_id].reverification_required = ~is_reverification]

\* a save that stamps verified_at on every success
SavedProfilesRestamp(discord_id, resp, is_reverification, t) ==
    IF discord_id \notin DOMAIN profiles
    THEN profiles @@ (discord_id :>
             [cas_login |-> Lower(resp.login),
              cas_real_name |-> resp.cn,
              cas_email |-> resp.mail,
              verified_at |-> t,
              last_reverified_at |-> t,
              reverification_required |-> FALSE,
              reverification_reason |-> Null,
              reverification_wave_id |-> Null,
              preserved_roles |-> Null])
    ELSE LET upd == [profiles EXCEPT ![discord_id].cas_login = Lower(resp.login),
                                     ![discord_id].cas_real_name = resp.cn,
                                     ![discord_id].cas_email = resp.mail,
                                     ![discord_id].verified_at = t,
                                     ![discord_id].last_reverified_at = t]
         IN  IF is_reverification
             THEN [upd EXCEPT ![discord_id].reverification_required = FALSE,
                              ![discord_id].reverification_reason = Null,
                              ![discord_id].reverification_wave_id = Null]
             ELSE upd

\* VerificationService.save_verification_data, lines 120-152: the profiles
SavedProfiles(discord_id, resp, is_reverification, t) ==
    IF discord_id \notin DOMAIN profiles
    THEN profiles @@ (discord_id :>
             [cas_login |-> Lower(resp.login),
              cas_real_name |-> resp.cn,
              cas_email |-> resp.mail,
              verified_at |-> t,
              last_reverified_at |-> t,
              reverification_required |-> FALSE,
              reverification_reason |-> Null,
              reverification_wave_id |-> Null,
              preserved_roles |-> Null])
    ELSE LET upd == [profiles EXCEPT ![discord_id].cas_login = Lower(resp.login),
                                     ![discord_id].cas_real_name = resp.cn,
                                     ![discord_id].cas_email = resp.mail,
                                     ![discord_id].last_reverified_at = t]
         IN  IF is_reverification
             THEN [upd EXCEPT ![discord_id].reverification_required = FALSE,
                              ![discord_id].reverification_reason = Null,
                              ![discord_id].reverification_wave_id = Null]
             ELSE upd

\* a unique constraint declared on users.type instead of users.login
UniqueLoginsOnType(us, profs) ==
    /\ \A a, b \in DOMAIN us : a # b => us[a].type # us[b].type
    /\ \A a, b \in DOMAIN profs : a # b => profs[a].cas_login # profs[b].cas_login

\* the unique constraints on users.login and user_verification_data.cas_login
UniqueLogins(us, profs) ==
    /\ \A a, b \in DOMAIN us : a # b => us[a].login # us[b].login
    /\ \A a, b \in DOMAIN profs : a # b => profs[a].cas_login # profs[b].cas_login

\* a save whose User update stays committed when the profile write fails
CallbackSaveNoRollback(p) ==
    /\ cb[p].pc = "save"
    /\ LET res == CallbackResult(TheOne(cb[p].matching))
           resp == CasResponses[cb[p].cas]
           us == SavedUsers(res.discord_id, resp)
           profs == SavedProfiles(res.discord_id, resp, res.is_reverification, now)
       IN  IF UniqueLogins(us, profs)
           THEN /\ users' = us
                /\ profiles' = profs
                /\ cb' = [cb EXCEPT ![p].pc = "roles"]
           ELSE /\ users' = [us EXCEPT ![res.discord_id].login =
                                <<"discord_", ToString(res.discord_id)>>]
                /\ profiles' = profiles
                /\ cb' = Finish(p, 500, ErrInternal)
    /\ UNCHANGED <<now, states, audit, present, roles, issued, hist,
                 classified, wave>>

\* a save that commits the profile and never sends the update of the User row
CallbackSaveProfileOnly(p) ==
    /\ cb[p].pc = "save"
    /\ LET res == CallbackResult(TheOne(cb[p].matching))
           resp == CasResponses[cb[p].cas]
           profs == SavedProfiles(res.discord_id, resp, res.is_reverification, now)
       IN  IF UniqueLogins(users, profs)
           THEN /\ users' = users
                /\ profiles' = profs
                /\ cb' = [cb EXCEPT ![p].pc = "roles"]
           ELSE /\ UNCHANGED <<users, profiles>>
                /\ cb' = Finish(p, 500, ErrInternal)
    /\ UNCHANGED <<now, states, audit, present, roles, issued, hist,
                 classified, wave>>

\* OAuthWebServer.handle_callback lines 106-116 with save_verification_data;
\* a constraint violation rolls the transaction back and becomes a 500.
\* The save as one step: CallbackSaveFlush and CallbackSaveCommit below are
\* the same save with its wait for the row lock made explicit.
CallbackSave(p) ==
    /\ cb[p].pc = "save"
    /\ LET res == CallbackResult(TheOne(cb[p].matching))
           resp == CasResponses[cb[p].cas]
           us == SavedUsers(res.discord_id, resp)
           profs == SavedProfiles(res.discord_id, resp, res.is_reverification, now)
       IN  IF UniqueLogins(us, profs)
           THEN /\ users' = us
                /\ profiles' = profs
                /\ cb' = [cb EXCEPT ![p].pc = "roles"]
           ELSE /\ UNCHANGED <<users, profiles>>
                /\ cb' = Finish(p, 500, ErrInternal)
    /\ UNCHANGED <<now, states, audit, present, roles, issued, hist,
                 classified, wave>>

\* save_verification_data, lines 94-121, in a transaction of its own.  The
\* User row is modified (lines 113-118) before the profile is selected (line
\* 121); the session autoflushes, so the UPDATE of the subject's users row is
\* sent before that select.  On PostgreSQL (config_loader.py line 103) the
\* UPDATE waits while another open transaction has written the same row or
\* holds the same login in the unique index, and fails when a committed row of
\* another subject holds the login; afterwards it keeps the row locked until
\* the commit.  A request with pc = "commit" is such an open transaction.
CallbackSaveFlush(p) ==
    /\ cb[p].pc = "save"
    /\ LET res == CallbackResult(TheOne(cb[p].matching))
           login == Lower(CasResponses[cb[p].cas].login)
       IN  /\ \A q \in Procs \ {p} :
                 cb[q].pc = "commit"
                    => /\ CallbackResult(TheOne(cb[q].matching)).discord_id # res.discord_id
                       /\ Lower(CasResponses[cb[q].cas].login) # login
           /\ IF \A o \in DOMAIN users : o # res.discord_id => users[o].login # login
              THEN cb' = [cb EXCEPT ![p].pc = "commit"]
              ELSE cb' = Finish(p, 500, ErrInternal)
    /\ UNCHANGED <<now, users, profiles, states, audit, present, roles, issued, hist,
                 classified, wave>>

\* save_verification_data, lines 121-154: the profile is selected, inserted or
\* updated, and the transaction commits; its writes become visible here
CallbackSaveCommit(p) ==
    /\ cb[p].pc = "commit"
    /\ LET res == CallbackResult(TheOne(cb[p].matching))
           resp == CasResponses[cb[p].cas]
           us == SavedUsers(res.discord_id, resp)
           profs == SavedProfiles(res.discord_id, resp, res.is_reverification, now)
       IN  IF UniqueLogins(us, profs)
           THEN /\ users' = us
                /\ profiles' = profs
                /\ cb' = [cb EXCEPT ![p].pc = "roles"]
           ELSE /\ UNCHANGED <<users, profiles>>
                /\ cb' = Finish(p, 500, ErrInternal)
    /\ UNCHANGED <<now, states, audit, present, roles, issued, hist,
                 classified, wave>>

\* VerificationService.assign_verified_roles, lines 186-209: roles_to_add
DefaultRoles(discord_id) ==
    IF discord_id \notin DOMAIN users THEN {}
    ELSE IF users[discord_id].type = 2
         THEN {r \in {teacher_role_id} : get_role(r)}
         ELSE {r \in {student_role_id} : get_role(r)}

\* VerificationService.restore_roles, line 257: is there a usable snapshot
HasSnapshot(discord_id) ==
    /\ discord_id \in DOMAIN profiles
    /\ profiles[discord_id].preserved_roles # Null

\* VerificationService.restore_roles, lines 264-270: roles_to_add
SnapshotRoles(discord_id) ==
    {r \in TheOne(profiles[discord_id].preserved_roles).role_ids : get_role(r)}

\* VerificationService.restore_roles: the roles passed to member.add_roles
RestoreRolesToAdd(discord_id) ==
    IF HasSnapshot(discord_id) THEN SnapshotRoles(discord_id)
    ELSE DefaultRoles(discord_id)

\* a restore_roles that clears the snapshot before the grant is attempted
SnapshotClearedBeforeGrant(discord_id, toAdd, grantOk) ==
    HasSnapshot(discord_id) /\ toAdd # {}

\* VerificationService.restore_roles, lines 272-279: is the snapshot cleared
SnapshotCleared(discord_id, toAdd, grantOk) ==
    HasSnapshot(discord_id) /\ toAdd # {} /\ grantOk

\* OAuthWebServer.handle_callback lines 118-145 with restore_roles and
\* assign_verified_roles; member.add_roles may raise, which is only logged.
\* The configured and the preserved role ids are roles of the home guild: in
\* any other guild get_role finds none of them and nothing is granted.
CallbackRoles(p, grantOutcomes) ==
    /\ cb[p].pc = "roles"
    /\ LET res == CallbackResult(TheOne(cb[p].matching))
           s == res.discord_id
           member == res.guild_id = HomeGuild /\ s \in present
           toAdd == IF ~member THEN {}
                    ELSE IF res.is_reverification THEN RestoreRolesToAdd(s)
                    ELSE DefaultRoles(s)
       IN  \E grantOk \in grantOutcomes :
           /\ roles' = IF grantOk THEN [roles EXCEPT ![s] = @ \cup toAdd] ELSE roles
           /\ profiles' = IF member /\ res.is_reverification
                             /\ SnapshotCleared(s, toAdd, grantOk)
                          THEN [profiles EXCEPT ![s].preserved_roles = Null]
                          ELSE profiles
           /\ cb' = [cb EXCEPT ![p].pc = "done", ![p].status = 200,
                               ![p].granted = IF grantOk THEN toAdd ELSE {},
                               ![p].sync = IF toAdd = {} THEN "none"
                                           ELSE IF grantOk THEN "ok" ELSE "failed"]
           /\ hist' = IF res.is_reverification
                      THEN [hist EXCEPT !.prior[s] = Null] ELSE hist
    /\ UNCHANGED <<now, users, states, audit, present, issued,
                 classified, wave>>

\* the response has been sent; the request is over
CallbackReturn(p) ==
    /\ cb[p].pc = "done"
    /\ cb' = [cb EXCEPT ![p] = IdleCb]
    /\ UNCHANGED <<now, users, profiles, states, audit, present, roles, issued, hist,
                 classified, wave>>

\* the raw state values a request can carry: 0 is a missing parameter, -1 a
\* string that was never issued, the others are issued tokens
StateInputs == {-1, 0} \cup (1 .. Len(issued))

AllAnswers == 1 .. Len(CasResponses)

\* One subject and one callback request at a time, with every outcome of the
\* provider, of the audit write and of the role grant.
Next ==
    \/ Tick
    \/ on_member_join(1)
    \/ Len(issued) < MaxTokens /\ handle_verification_button(1, HomeGuild)
    \/ \E c \in CallerRoleSets, r \in Reasons :
          Len(issued) < MaxTokens /\ reverify_user(c, 1, r)
    \/ \E t \in Tickets \cup {""}, st \in StateInputs : CallbackSelect(1, t, st)
    \/ CallbackDelete(1)
    \/ CallbackValidate(1, AllAnswers)
    \/ CallbackAudit(1, DbOutcomes)
    \/ CallbackSave(1)
    \/ CallbackRoles(1, BOOLEAN)
    \/ CallbackReturn(1)

Spec == Init /\ [][Next]_vars

\* Several subjects and several callback requests served concurrently: every
\* step of a request interleaves with every other handler.
NextRace ==
    \/ Tick
    \/ \E s \in Subjects : on_member_join(s)
    \/ \E s \in Subjects, g \in Guilds :
          Len(issued) < RaceTokens /\ handle_verification_button(s, g)
    \/ \E c \in CallerRoleSets, s \in Subjects, r \in Reasons :
          Len(issued) < RaceTokens /\ reverify_user(c, s, r)
    \/ \E p \in Procs, t \in Tickets, st \in StateInputs : CallbackSelect(p, t, st)
    \/ \E p \in Procs : CallbackDelete(p)
    \/ \E p \in Procs : CallbackValidate(p, {1})
    \/ \E p \in Procs : CallbackAudit(p, {"ok"})
    \/ \E p \in Procs : CallbackSave(p)
    \/ \E p \in Procs : CallbackRoles(p, {TRUE})
    \/ \E p \in Procs : CallbackReturn(p)

SpecRace == Init /\ [][NextRace]_vars

\* The commands of the guild: members join, are given roles by hand, verify
\* and are sent to re-verification; one callback request at a time, on the
\* path where the provider, the store and the role grant all answer.
NextAdmin ==
    \/ \E s \in Subjects : on_member_join(s)
    \/ \E s \in Subjects, r \in {student_role_id, host_role_id} : member_update(s, r)
    \/ \E s \in Subjects :
          Len(issued) < AdminTokens /\ handle_verification_button(s, HomeGuild)
    \/ \E c \in CallerRoleSets, s \in Subjects, r \in Reasons :
          Len(issued) < AdminTokens /\ reverify_user(c, s, r)
    \/ \E t \in Tickets, st \in StateInputs : CallbackSelect(1, t, st)
    \/ CallbackDelete(1)
    \/ CallbackValidate(1, AllAnswers)
    \/ CallbackAudit(1, {"ok"})
    \/ CallbackSave(1)
    \/ CallbackRoles(1, {TRUE})
    \/ CallbackReturn(1)

SpecAdmin == Init /\ [][NextAdmin]_vars

\* The callback with a store that can fail at every statement of
\* handle_callback and a provider that can fail in every way; one request at
\* a time, two subjects.  Store errors at the select and at the delete stop
\* once the audit table holds MaxAudit rows.
NextFaults ==
    \/ \E s \in Subjects : on_member_join(s)
    \/ \E s \in Subjects :
          Len(issued) < FaultTokens /\ handle_verification_button(s, HomeGuild)
    \/ \E t \in Tickets, st \in StateInputs : CallbackSelect(1, t, st)
    \/ \E t \in Tickets, st \in StateInputs :
          Len(audit) < MaxAudit /\ CallbackSelectFails(1, t, st)
    \/ CallbackDelete(1)
    \/ Len(audit) < MaxAudit /\ CallbackDeleteFails(1)
    \/ CallbackValidate(1, AllAnswers)
    \/ CallbackAudit(1, DbOutcomes)
    \/ CallbackSave(1)
    \/ CallbackRoles(1, BOOLEAN)
    \/ CallbackReturn(1)

SpecFaults == Init /\ [][NextFaults]_vars

\* ------------------------------------------------- classification of a user
\* Values of the provider's groups and eduPersonAffiliation attributes, each
\* with what it is: does it name a teacher as an affiliation (aff), as a
\* group (grp).  "employee" and "Teacher" are teacher affiliations but, as
\* groups, do not contain "employees" or "teachers".
AttributeValues ==
    { [text |-> <<"s","t","u","d","e","n","t">>, aff |-> FALSE, grp |-> FALSE],
      [text |-> <<"t","e","a","c","h">>, aff |-> FALSE, grp |-> FALSE],
      [text |-> <<"F","a","c","u","l","t","y">>, aff |-> TRUE, grp |-> TRUE],
      [text |-> <<"e","m","p","l","o","y","e","e">>, aff |-> TRUE, grp |-> FALSE],
      [text |-> <<"T","e","a","c","h","e","r">>, aff |-> TRUE, grp |-> FALSE],
      [text |-> <<"i","t","-","S","T","a","f","f">>, aff |-> TRUE, grp |-> TRUE],
      [text |-> <<"t","e","a","c","h","e","r","s","-","f","e","i">>,
       aff |-> TRUE, grp |-> TRUE] }

\* the lists of at most MaxWords attribute values
AttributeLists ==
    UNION {[1 .. n -> {v.text : v \in AttributeValues}] : n \in 0 .. MaxWords}

\* VerificationService.save_verification_data lines 90-92: the call
determine(groups, affiliations) ==
    /\ classified' =
          Some([groups |-> groups, affiliations |-> affiliations,
                user_type |-> _determine_user_type(groups, affiliations)])
    /\ UNCHANGED <<now, users, profiles, states, audit, present, roles, issued,
                   cb, hist, wave>>

\* one call, with every pair of lists
NextClassify ==
    \E groups \in AttributeLists, affiliations \in AttributeLists :
       classified = Null /\ determine(groups, affiliations)

SpecClassify == Init /\ [][NextClassify]_vars

\* Two subjects and two callback requests served concurrently, with every
\* login the provider can return for each of them and the save in its two
\* steps; the store and the role grant answer.
NextPair ==
    \/ \E s \in Subjects : on_member_join(s)
    \/ \E s \in Subjects :
          Len(issued) < PairTokens /\ handle_verification_button(s, HomeGuild)
    \/ \E p \in Procs, t \in Tickets, st \in StateInputs : CallbackSelect(p, t, st)
    \/ \E p \in Procs : CallbackDelete(p)
    \/ \E p \in Procs : CallbackValidate(p, AllAnswers)
    \/ \E p \in Procs : CallbackAudit(p, {"ok"})
    \/ \E p \in Procs : CallbackSaveFlush(p)
    \/ \E p \in Procs : CallbackSaveCommit(p)
    \/ \E p \in Procs : CallbackRoles(p, {TRUE})
    \/ \E p \in Procs : CallbackReturn(p)

SpecPair == Init /\ [][NextPair]_vars

\* ------------------------------------------------------------- properties
SelectStep(p) == cb[p].pc = "idle" /\ cb'[p].pc # "idle"
\* the request reached CASService.handle_callback (both parameters present)
Handled(c) == c.ticket # "" /\ c.state # 0
Rejected(c) == c.pc = "done" /\ c.status = 400 /\ c.error = ErrInvalidState
ExpiresAt(st) == issued[st].issued_at + verification_state_expiry_minutes
RowOf(st) == {vs \in states : vs.state = StateHash(st, issued[st].discord_id)}
SaveStep(p) == cb[p].pc = "save" /\ cb'[p].pc = "roles"
RolesStep(p) == cb[p].pc = "roles" /\ cb'[p].pc = "done"
ResultOf(p) == CallbackResult(TheOne(cb[p].matching))
\* the member the callback of request p looks up exists
MemberFound(p) == ResultOf(p).guild_id = HomeGuild /\ ResultOf(p).discord_id \in present

\* C1: when calls presenting the same raw token follow one another, a call
\* that comes after a call that found the token's record and went on to
\* ticket validation finds no record and returns 'Invalid or expired
\* verification state'.
C1_SecondRedemptionFails ==
    [][\A p \in Procs :
          (SelectStep(p) /\ Handled(cb'[p]) /\ cb'[p].state \in hist.redeemed)
             => Rejected(cb'[p])]_vars

\* a second call with an already redeemed, not yet expired token was rejected
C1_Witness ==
    \E p \in Procs :
       /\ Rejected(cb[p])
       /\ cb[p].state \in hist.redeemed
       /\ now < ExpiresAt(cb[p].state)

\* C2: of two concurrent callbacks presenting the same raw token, only one
\* gets past the token check; never do two requests both hold the token's
\* record after their delete step.
C2_OnlyOneGetsPast ==
    \A p, q \in Procs :
       (p # q /\ cb[p].matching # Null /\ cb[q].matching # Null
          /\ cb[p].pc \notin {"idle", "delete"} /\ cb[q].pc \notin {"idle", "delete"})
       => cb[p].state # cb[q].state

\* C3: a call presenting an issued token at or after issue time + TTL is
\* rejected, redeemed or not; a never-redeemed token presented before that
\* time is matched, with the record of the subject it was issued for.
C3_ExpiryAtTTL ==
    [][\A p \in Procs :
          (SelectStep(p) /\ Handled(cb'[p]) /\ cb'[p].state \in DOMAIN issued)
             => LET st == cb'[p].state IN
                /\ now >= ExpiresAt(st) => Rejected(cb'[p])
                /\ (now < ExpiresAt(st) /\ st \notin hist.redeemed)
                      => /\ cb'[p].pc = "delete"
                         /\ cb'[p].matching = RowOf(st)
                         /\ RowOf(st) # {}]_vars

\* a never-redeemed token was rejected at its expiry time, its row still stored
C3_Witness ==
    \E p \in Procs :
       /\ Rejected(cb[p])
       /\ cb[p].state \in DOMAIN issued
       /\ cb[p].state \notin hist.redeemed
       /\ RowOf(cb[p].state) # {}
       /\ now >= ExpiresAt(cb[p].state)

\* C4: every finished handle_callback invocation has appended exactly one
\* audit record.
C4_OneAuditPerCallback ==
    \A p \in Procs :
       (cb[p].pc = "done" /\ Handled(cb[p])) => cb[p].nAudit = 1

\* C5: when save_verification_data commits in a successful callback, the
\* subject is verified afterwards: reverification_required is false and the
\* reason and the wave reference are cleared.
C5_SuccessMeansVerified ==
    [][\A p \in Procs :
          SaveStep(p)
             => LET s == ResultOf(p).discord_id IN
                /\ s \in DOMAIN profiles'
                /\ ~profiles'[s].reverification_required
                /\ profiles'[s].reverification_reason = Null
                /\ profiles'[s].reverification_wave_id = Null]_vars

\* C6: a callback that got past the token check works with exactly the
\* discord_id, guild_id and reverification flag the token was issued with.
C6_ResultIsWhatWasIssued ==
    \A p \in Procs :
       cb[p].matching # Null
          => /\ cb[p].state \in DOMAIN issued
             /\ ResultOf(p).discord_id = issued[cb[p].state].discord_id
             /\ ResultOf(p).guild_id = issued[cb[p].state].guild_id
             /\ ResultOf(p).is_reverification = issued[cb[p].state].is_reverification

\* a callback succeeded while an unexpired row of another subject was stored
C6_Witness ==
    \E p \in Procs :
       /\ cb[p].success
       /\ \E vs \in NonExpiredStates(now) : vs.discord_id # ResultOf(p).discord_id

\* C7: when ticket validation starts the matched row is no longer stored,
\* and a call presenting a token whose validation failed is rejected.
C7_DeletedBeforeValidation ==
    [][\A p \in Procs :
          /\ cb'[p].pc = "validate"
                => \A vs \in states' : vs.state # TheOne(cb'[p].matching).state
          /\ (SelectStep(p) /\ Handled(cb'[p]) /\ cb'[p].state \in hist.failed)
                => Rejected(cb'[p])]_vars

\* a token whose ticket validation failed was presented again before its
\* expiry and was rejected
C7_Witness ==
    \E p \in Procs :
       /\ Rejected(cb[p])
       /\ cb[p].state \in hist.failed
       /\ now < ExpiresAt(cb[p].state)

\* C8: a restore that finds a snapshot R grants exactly R and clears the
\* snapshot; a restore that finds none grants the category default role.
C8_RestoreRoundTrip ==
    [][\A p \in Procs :
          (RolesStep(p) /\ ResultOf(p).is_reverification /\ MemberFound(p)
             /\ cb'[p].sync # "failed")
             => LET s == ResultOf(p).discord_id IN
                IF HasSnapshot(s)
                THEN /\ cb'[p].granted = TheOne(profiles[s].preserved_roles).role_ids
                     /\ profiles'[s].preserved_roles = Null
                ELSE cb'[p].granted = DefaultRoles(s)]_vars

\* C9: after a successful callback for a member of the guild whose role
\* grant did not fail, the callback has granted the member at least one role.
C9_NeverWithoutBaseline ==
    [][\A p \in Procs :
          (RolesStep(p) /\ MemberFound(p) /\ cb'[p].sync # "failed")
             => /\ cb'[p].granted # {}
                /\ cb'[p].granted \subseteq roles'[ResultOf(p).discord_id]]_vars

\* C10: the re-verification callback that follows one or more reverify
\* requests for a verified subject grants back exactly the roles (without
\* everyone) the subject held before the first of these requests.
C10_RestoresPriorStanding ==
    [][\A p \in Procs :
          (RolesStep(p) /\ ResultOf(p).is_reverification /\ MemberFound(p)
             /\ cb'[p].sync # "failed" /\ hist.prior[ResultOf(p).discord_id] # Null)
             => cb'[p].granted = TheOne(hist.prior[ResultOf(p).discord_id])]_vars

\* the roles a step takes away from member s
RemovedRoles(s) == roles[s] \ roles'[s]

\* C11: whenever reverify_user removes roles from a member, the member's
\* profile holds a snapshot containing the removed roles, stored by the same
\* invocation before the removal; this for every member, with or without a
\* profile.
C11_SnapshotBeforeRemoval ==
    [][\A s \in Subjects :
          RemovedRoles(s) # {}
             => /\ s \in DOMAIN profiles'
                /\ profiles'[s].preserved_roles # Null
                /\ RemovedRoles(s) \subseteq
                      TheOne(profiles'[s].preserved_roles).role_ids]_vars

\* C12: require_reverification called for a member that has no profile
\* reports ProfileNotFound to its caller.
C12_ProfileNotFoundReported ==
    \A s \in present :
       s \notin DOMAIN profiles
          => require_reverification_result(profiles, s) = "ProfileNotFound"

\* a reverify_user invocation by an administrator for member s that has no
\* profile: the only handler that issues a re-verification token for such s
ReverifyWithoutProfile(s) ==
    /\ s \notin DOMAIN profiles
    /\ Len(issued') = Len(issued) + 1
    /\ issued'[Len(issued')].discord_id = s
    /\ issued'[Len(issued')].is_reverification

\* C13: require_reverification and preserve_roles called for a subject that
\* has no profile return the profile table as it was, and the reverify_user
\* invocation that calls them leaves the table unchanged: no profile is
\* created and no other profile is modified.
C13_NoProfileNoChange ==
    [][\A s \in Subjects :
          /\ (s \in present /\ s \notin DOMAIN profiles)
                => /\ preserve_roles(profiles, s, roles[s], now) = profiles
                   /\ \A r \in Reasons :
                         require_reverification(profiles, s, r, Null, now) = profiles
          /\ ReverifyWithoutProfile(s) => profiles' = profiles]_vars

\* an administrator sent a member without a profile to re-verification while
\* another member had a profile
C13_Witness ==
    \E i \in DOMAIN issued :
       /\ issued[i].is_reverification
       /\ issued[i].discord_id \notin DOMAIN profiles
       /\ DOMAIN profiles # {}

\* C14: is_verified(subject) is true exactly when a profile exists for the
\* subject and its reverification_required is false.
C14_IsVerifiedIff ==
    \A s \in Subjects :
       is_verified(s) <=>
          (s \in DOMAIN profiles /\ profiles[s].reverification_required = FALSE)

\* a profile exists and is_verified is false for its subject
C14_Witness ==
    \E s \in DOMAIN profiles :
       profiles[s].reverification_required /\ ~is_verified(s)

AuditStep(p) == cb[p].pc = "audit" /\ cb'[p].pc # "audit"

\* C15: whatever happens to the write of the audit record after the token was
\* redeemed and the ticket validated, handle_callback returns the success
\* result and the request goes on to save the verification data.
C15_AuditFailureKeepsSuccess ==
    [][\A p \in Procs :
          AuditStep(p) => (cb'[p].success /\ cb'[p].pc = "save")]_vars

\* C16: when the role grant of a callback fails, the request still answers
\* 200 and the User row and the profile written by save_verification_data
\* stay as they were committed.
C16_GrantFailureKeepsProfile ==
    [][\A p \in Procs :
          (RolesStep(p) /\ cb'[p].sync = "failed")
             => LET s == ResultOf(p).discord_id IN
                /\ cb'[p].status = 200
                /\ profiles' = profiles
                /\ users' = users
                /\ s \in DOMAIN profiles
                /\ profiles[s].cas_login = Lower(CasResponses[cb[p].cas].login)]_vars

\* a callback answered 200 although its role grant failed
C16_Witness ==
    \E p \in Procs :
       /\ cb[p].pc = "done"
       /\ cb[p].sync = "failed"
       /\ cb[p].status = 200
       /\ ResultOf(p).discord_id \in DOMAIN profiles

SaveFails(p) == cb[p].pc = "save" /\ cb'[p].pc = "done"

\* C17: when save_verification_data fails after the token was redeemed, the
\* request answers 500, the users and the profile table are as before the
\* call, the token's row is not stored and no token has been issued.
C17_SaveFailureLeavesNothing ==
    [][\A p \in Procs :
          SaveFails(p)
             => /\ cb'[p].status = 500
                /\ users' = users
                /\ profiles' = profiles
                /\ \A vs \in states' : vs.state # TheOne(cb[p].matching).state
                /\ states' = states
                /\ issued' = issued]_vars

\* a callback whose save failed has answered 500
C17_Witness ==
    \E p \in Procs :
       /\ cb[p].pc = "done"
       /\ cb[p].status = 500
       /\ cb[p].success
       /\ ResultOf(p).discord_id \in DOMAIN users

\* C18: from the failure of its ticket validation on, a callback changes no
\* User row and no profile.
C18_TicketFailureNoMutation ==
    [][\A p \in Procs :
          (cb[p].pc # "idle" /\ cb'[p] # cb[p] /\ cb[p].state \in hist'.failed)
             => (users' = users /\ profiles' = profiles)]_vars

\* a callback has ended with a failed ticket validation while a profile exists
C18_Witness ==
    \E p \in Procs :
       /\ cb[p].pc = "done"
       /\ cb[p].error = ErrTicket
       /\ cb[p].matching # Null
       /\ cb[p].state \in hist.failed
       /\ DOMAIN profiles # {}

\* C19: the result handed to the caller of handle_callback tells the ways in
\* which a ticket validation can fail apart: two different provider failures
\* never give the same result.
C19_FailureIsTyped ==
    \A p \in Procs :
       cb[p].pc = "validate"
          => \A f, g \in ProviderFailures :
                f # g => TicketResult(ProviderFailure(f)) # TicketResult(ProviderFailure(g))

\* C20: validate_cas_ticket returns the attribute dict or None for every
\* provider behaviour, and handle_callback returns a result for every
\* provider behaviour and every store error: the web handler's own except
\* branch (500) is only ever reached after handle_callback returned success.
C20_NeverRaises ==
    /\ \A i \in AllAnswers :
          validate_cas_ticket(ProviderSuccess(i)) = Some(CasResponses[i])
    /\ \A f \in ProviderFailures : validate_cas_ticket(ProviderFailure(f)) = Null
    /\ \A p \in Procs :
          (cb[p].pc = "done" /\ Handled(cb[p]))
             => /\ cb[p].status \in {200, 400, 500}
                /\ cb[p].status = 500 => cb[p].success
                /\ cb[p].status = 200 => cb[p].success
                /\ cb[p].status = 400 => (~cb[p].success /\ cb[p].error # NoError)

\* a store error inside handle_callback came back as a failure result whose
\* own audit write failed as well
C20_Witness ==
    \E p \in Procs :
       /\ cb[p].pc = "done"
       /\ cb[p].error \in {ExcStore, ExcAuditWrite}
       /\ cb[p].nAudit = 0
       /\ cb[p].status = 400

IsDigest(h) == h[1] = "sha256"

\* C21: no stored record holds a raw token or a raw ticket: every row of the
\* token store is keyed by a digest, and the state and ticket fields of every
\* audit record are digests.
C21_OnlyDigestsStored ==
    /\ \A vs \in states : IsDigest(vs.state)
    /\ \A i \in DOMAIN audit :
          IsDigest(audit[i].state_sha256) /\ IsDigest(audit[i].ticket_sha256)

\* the messages the web handler itself defines, and the two that
\* handle_callback returns as fixed strings
TemplatedMessages ==
    {ErrMissingTicket, ErrMissingState, ErrInternal, ErrInvalidState, ErrTicket}

\* C22: the error text of every failed callback is one of the fixed
\* messages; it is never the text of an internal exception.
C22_OnlyTemplatedErrors ==
    \A p \in Procs :
       (cb[p].pc = "done" /\ cb[p].status # 200) => cb[p].error \in TemplatedMessages

\* what the caller of handle_callback, and the end user, get to see
FailureView(c) ==
    [pc |-> c.pc, status |-> c.status, error |-> c.error, success |-> c.success,
     nAudit |-> c.nAudit]

Unknown(st) == st \notin DOMAIN issued
Expired(st) == st \in DOMAIN issued /\ now >= ExpiresAt(st)
Redeemed(st) == st \in hist.redeemed

\* C23: a call presenting a token that was never issued, one presenting an
\* expired token and one presenting a redeemed token all end in the same
\* result and leave the token store and the audit log as they were.
C23_SameAnswerForBadTokens ==
    [][\A p \in Procs :
          (SelectStep(p) /\ Handled(cb'[p])
             /\ (Unknown(cb'[p].state) \/ Expired(cb'[p].state) \/ Redeemed(cb'[p].state)))
             => /\ FailureView(cb'[p]) =
                      [pc |-> "done", status |-> 400, error |-> ErrInvalidState,
                       success |-> FALSE, nAudit |-> 0]
                /\ states' = states
                /\ audit' = audit]_vars

\* a never-issued token was rejected while an expired row is stored and
\* another token has been redeemed
C23_Witness ==
    \E p \in Procs :
       /\ Rejected(cb[p])
       /\ Unknown(cb[p].state)
       /\ hist.redeemed # {}
       /\ \E vs \in states : vs.expires_at <= now

Untouched ==
    /\ states' = states
    /\ profiles' = profiles
    /\ users' = users
    /\ audit' = audit

\* C24: the web handler answers 400 to a request without ticket and to one
\* without state, and then touches neither the token store, the profiles nor
\* the audit log; it answers 400 when handle_callback reports failure and 200
\* when the callback ran to its end.
C24_StatusCodes ==
    [][\A p \in Procs :
          /\ (SelectStep(p) /\ cb'[p].ticket = "")
                => (cb'[p].pc = "done" /\ cb'[p].status = 400
                    /\ cb'[p].error = ErrMissingTicket /\ Untouched)
          /\ (SelectStep(p) /\ cb'[p].ticket # "" /\ cb'[p].state = 0)
                => (cb'[p].pc = "done" /\ cb'[p].status = 400
                    /\ cb'[p].error = ErrMissingState /\ Untouched)
          /\ (cb[p].pc # "done" /\ cb'[p].pc = "done" /\ Handled(cb'[p])
                /\ ~cb'[p].success)
                => cb'[p].status = 400
          /\ RolesStep(p) => cb'[p].status = 200]_vars

\* a request without state was answered 400 while a token row is stored
C24_Witness ==
    \E p \in Procs :
       /\ cb[p].pc = "done"
       /\ cb[p].ticket # ""
       /\ cb[p].state = 0
       /\ cb[p].status = 400
       /\ states # {}

\* C26: the save of a subject's first successful verification creates the
\* profile with verified_at = last_reverified_at = the time of the write,
\* reverification_required false and login (in lower case), name and email
\* from the provider's answer.
C26_FirstSaveCreatesProfile ==
    [][\A p \in Procs :
          (SaveStep(p) /\ ResultOf(p).discord_id \notin DOMAIN profiles)
             => LET s == ResultOf(p).discord_id
                    resp == CasResponses[cb[p].cas]
                IN  /\ s \in DOMAIN profiles'
                    /\ profiles'[s].verified_at = now
                    /\ profiles'[s].last_reverified_at = now
                    /\ profiles'[s].reverification_required = FALSE
                    /\ profiles'[s].cas_login = Lower(resp.login)
                    /\ profiles'[s].cas_real_name = resp.cn
                    /\ profiles'[s].cas_email = resp.mail
                    /\ \A o \in DOMAIN profiles : profiles'[o] = profiles[o]]_vars

\* a first verification was saved after time had passed, with a login the
\* provider sent in upper case
C26_Witness ==
    \E p \in Procs :
       /\ cb[p].pc = "roles"
       /\ now > 0
       /\ LET s == ResultOf(p).discord_id IN
          /\ s \in DOMAIN profiles
          /\ profiles[s].verified_at = now
          /\ profiles[s].last_reverified_at = now
          /\ profiles[s].cas_login = <<"k", "2">>

ValueOf(text) == CHOOSE v \in AttributeValues : v.text = text

\* C25: _determine_user_type returns 2 exactly when some affiliation names a
\* teacher (contains, in any case, employee, faculty, staff or teacher) or
\* some group does (employees, staff, faculty, teachers), and 0 otherwise; an
\* affiliation that matches decides the result whatever the groups are.
C25_TeacherIff ==
    classified # Null
       => LET c == TheOne(classified)
              byAffiliation == \E i \in DOMAIN c.affiliations : ValueOf(c.affiliations[i]).aff
              byGroup == \E i \in DOMAIN c.groups : ValueOf(c.groups[i]).grp
          IN  /\ c.user_type \in {0, 2}
              /\ c.user_type = 2 <=> (byAffiliation \/ byGroup)
              /\ byAffiliation => c.user_type = 2

\* a user whose only teacher attribute is an affiliation written with capital
\* letters, next to a group that names no teacher, was classified as teacher
C25_Witness ==
    /\ classified # Null
    /\ TheOne(classified).affiliations = << <<"T","e","a","c","h","e","r">> >>
    /\ TheOne(classified).groups = << <<"s","t","u","d","e","n","t">> >>
    /\ TheOne(classified).user_type = 2

\* One subject and one request at a time, with time passing.  Every step of a
\* request that has started is taken (the event loop runs a handler to its
\* end), the clock advances, and every issued token is presented again and
\* again.
NextLive ==
    \/ Tick
    \/ on_member_join(1)
    \/ Len(issued) < LiveTokens /\ handle_verification_button(1, HomeGuild)
    \/ \E st \in StateInputs : CallbackSelect(1, "ST-1", st)
    \/ CallbackDelete(1)
    \/ CallbackValidate(1, {1})
    \/ CallbackAudit(1, {"ok"})
    \/ CallbackSave(1)
    \/ CallbackRoles(1, {TRUE})
    \/ CallbackReturn(1)

HandlerStep ==
    \/ CallbackDelete(1)
    \/ CallbackValidate(1, {1})
    \/ CallbackAudit(1, {"ok"})
    \/ CallbackSave(1)
    \/ CallbackRoles(1, {TRUE})
    \/ CallbackReturn(1)

LiveFairness ==
    /\ WF_vars(Tick)
    /\ WF_vars(HandlerStep)
    /\ \A i \in 1 .. LiveTokens :
          SF_vars(i <= Len(issued) /\ CallbackSelect(1, "ST-1", i))

SpecLive == Init /\ [][NextLive]_vars /\ LiveFairness

\* -------------------------------------------------- re-verification waves
\* The holders of the target role are numbered 1 .. total_users; today is
\* day 0 and scheduled_for counts days from today.

\* a cohort numbering that starts one holder late
DayOfFromOne(i, batch) == i \div batch

\* createWave: the day of the i-th holder when every day takes batch holders
DayOf(i, batch) == (i - 1) \div batch

\* createWave: ceil(totalUsers * dailyBatchPercent / 100)
BatchSize(total_users, percent) == (total_users * percent + 99) \div 100

\* createWave(targetRole, windowDays, dailyBatchPercent), the holders of the
\* role given by their number: the wave row and its verification_wave_users
WaveInputsDays == {-1, 0, 1, 2, reverification_window_days}
WaveInputsPercents == {-1, 0, reverification_daily_batch_percent, 50, 100}

createWave(total_users, window_days, percent) ==
    /\ wave' =
         IF window_days <= 0 \/ percent <= 0
         THEN Some([status |-> "rejected", total_users |-> total_users,
                    window_days |-> window_days, percent |-> percent,
                    assignments |-> {}])
         ELSE IF total_users = 0
         THEN Some([status |-> "completed", total_users |-> 0,
                    window_days |-> window_days, percent |-> percent,
                    assignments |-> {}])
         ELSE Some([status |-> "pending", total_users |-> total_users,
                    window_days |-> window_days, percent |-> percent,
                    assignments |->
                        {[discord_id |-> i,
                          scheduled_for |-> DayOf(i, BatchSize(total_users, percent))] :
                            i \in 1 .. total_users}])
    /\ UNCHANGED <<now, users, profiles, states, audit, present, roles, issued, cb,
                 hist, classified>>

NextWave ==
    \E total_users \in 0 .. MaxHolders, window_days \in WaveInputsDays,
       percent \in WaveInputsPercents :
        wave = Null /\ createWave(total_users, window_days, percent)

SpecWave == Init /\ [][NextWave]_vars

\* request p ends its save in this step, with or without error
SaveEnds(p) == cb[p].pc \in {"save", "commit"} /\ cb'[p].pc \notin {"save", "commit"}

\* the login the provider returned to request p, as it is stored
LoginOf(p) == Lower(CasResponses[cb[p].cas].login)

\* no other subject's row holds the login of request p
LoginFree(p) ==
    LET s == ResultOf(p).discord_id IN
    /\ \A o \in DOMAIN users : o # s => users[o].login # LoginOf(p)
    /\ \A o \in DOMAIN profiles : o # s => profiles[o].cas_login # LoginOf(p)

\* request q handles another token of the subject of p and has reached
\* save_verification_data while p is being served
SameSubjectInFlight(p, q) ==
    /\ q # p
    /\ cb[p].matching # Null
    /\ cb[q].matching # Null
    /\ cb[q].success
    /\ cb[q].pc \in {"save", "commit", "roles", "done"}
    /\ cb[q].state # cb[p].state
    /\ ResultOf(q).discord_id = ResultOf(p).discord_id

\* what the save of request p has to leave in the row of its subject
SavedAsOf(p) ==
    LET s == ResultOf(p).discord_id IN
    /\ cb'[p].pc = "roles"
    /\ s \in DOMAIN profiles'
    /\ profiles'[s].cas_login = LoginOf(p)
    /\ profiles'[s].cas_real_name = CasResponses[cb[p].cas].cn
    /\ profiles'[s].cas_email = CasResponses[cb[p].cas].mail
    /\ profiles'[s].last_reverified_at = now
    /\ users'[s].login = LoginOf(p)

OthersUntouched(p) ==
    /\ \A o \in DOMAIN users' : o # ResultOf(p).discord_id
          => (o \in DOMAIN users /\ users'[o] = users[o])
    /\ \A o \in DOMAIN profiles' : o # ResultOf(p).discord_id
          => (o \in DOMAIN profiles /\ profiles'[o] = profiles[o])

Stored(i) == i <= Len(issued) /\ RowOf(i) # {}

\* C29: every token record is eventually removed from the store; no record
\* remains in it forever.
C29_EveryTokenRemoved ==
    \A i \in 1 .. LiveTokens : Stored(i) ~> ~Stored(i)

\* the least number of holders b with b / totalUsers >= percent / 100
CeilPercent(total_users, percent) ==
    CHOOSE b \in 0 .. total_users :
        /\ 100 * b >= total_users * percent
        /\ b > 0 => 100 * (b - 1) < total_users * percent

\* the cohort of day d of wave w
Cohort(w, d) == {a \in w.assignments : a.scheduled_for = d}

RECURSIVE CohortSizesUpTo(_, _)
CohortSizesUpTo(w, d) ==
    IF d < 0 THEN 0
    ELSE Cardinality(Cohort(w, d)) + CohortSizesUpTo(w, d - 1)

\* every holder in exactly one cohort, no cohort above the daily batch, and
\* the cohort sizes adding up to total_users
WaveWellFormed(w) ==
    /\ \A i \in 1 .. w.total_users :
          Cardinality({a \in w.assignments : a.discord_id = i}) = 1
    /\ \A a \in w.assignments :
          /\ a.discord_id \in 1 .. w.total_users
          /\ a.scheduled_for >= 0
          /\ Cardinality(Cohort(w, a.scheduled_for))
                 <= CeilPercent(w.total_users, w.percent)
    /\ CohortSizesUpTo(w, w.total_users) = w.total_users
    /\ w.total_users = 0 => w.status = "completed"

InWindow(w) == \A a \in w.assignments : a.scheduled_for < w.window_days

Created(w) == w.status # "rejected"

\* C30 as stated: in every created wave each holder is in exactly one cohort
\* of a day within [today, today + windowDays), no cohort is larger than
\* ceil(totalUsers * dailyBatchPercent / 100), and the sizes sum to totalUsers.
C30_CohortsInWindow ==
    \A w \in wave : Created(w) => (WaveWellFormed(w) /\ InWindow(w))

\* C30, amended: in every created wave each holder is in exactly one cohort,
\* no cohort is larger than ceil(totalUsers * dailyBatchPercent / 100), and
\* the sizes sum to totalUsers; the days lie within [today, today + windowDays)
\* whenever windowDays cohorts of that size can hold totalUsers.  A wave is
\* created exactly when windowDays > 0 and dailyBatchPercent > 0.
C30_CohortsInWindowWhenTheyFit ==
    \A w \in wave :
       /\ Created(w) <=> (w.window_days > 0 /\ w.percent > 0)
       /\ Created(w) =>
             /\ WaveWellFormed(w)
             /\ w.window_days * CeilPercent(w.total_users, w.percent) >= w.total_users
                    => InWindow(w)

\* a wave of the default configuration whose last day is full
C30_Witness ==
    \E w \in wave :
       /\ w.status = "pending"
       /\ w.window_days = reverification_window_days
       /\ w.percent = reverification_daily_batch_percent
       /\ w.total_users = 56
       /\ Cardinality(Cohort(w, reverification_window_days - 1)) = 4

\* this step is reverify_user run on member s by a caller who holds the admin
\* or the moderator role
AdminReverifyStep(s) ==
    \E c \in CallerRoleSets, r \in Reasons :
       /\ admin_role_id \in c \/ moderator_role_id \in c
       /\ reverify_user(c, s, r)

\* the flag of subject s is set by this step
BecomesRequired(s) ==
    /\ s \in DOMAIN profiles'
    /\ profiles'[s].reverification_required
    /\ s \in DOMAIN profiles => ~profiles[s].reverification_required

\* C31: in every step, reverification_required of a profile goes from false
\* to true only in require_reverification, which reverify_user calls; the
\* save, the snapshot, the restore and the other steps of the callback never
\* set it, and a new profile starts with it false.
C31_OnlyRequireSetsFlag ==
    [][\A s \in Subjects :
          BecomesRequired(s)
             => /\ s \in DOMAIN profiles
                /\ AdminReverifyStep(s)
                /\ \E r \in Reasons :
                      profiles' = require_reverification(
                                      preserve_roles(profiles, s, roles[s], now),
                                      s, r, Null, now)]_vars

\* a profile is marked while the callback of an initial token of its subject
\* has saved and not yet returned
C31_Witness ==
    \E p \in Procs :
       /\ cb[p].pc = "roles"
       /\ ~ResultOf(p).is_reverification
       /\ requires_reverification(ResultOf(p).discord_id)

\* C32: once a profile exists, no step changes its verified_at, and
\* verified_at <= last_reverified_at in every state.
C32_VerifiedAtFixed ==
    [][/\ \A s \in DOMAIN profiles :
             /\ s \in DOMAIN profiles'
             /\ profiles'[s].verified_at = profiles[s].verified_at
       /\ \A s \in DOMAIN profiles' :
             profiles'[s].verified_at <= profiles'[s].last_reverified_at]_vars

\* a profile created at one time was saved again at a later time
C32_Witness ==
    \E s \in DOMAIN profiles :
       /\ profiles[s].verified_at < profiles[s].last_reverified_at
       /\ profiles[s].last_reverified_at = now

\* the User row that the provider's answer resp asks for
ProviderRow(resp) ==
    [login |-> Lower(resp.login), activity |-> 1,
     type |-> _determine_user_type(resp.groups, resp.eduPersonAffiliation)]

\* after this step the User row and the profile of s both carry the
\* attributes of the answer resp
ReflectsBoth(s, resp) ==
    /\ s \in DOMAIN users' /\ users'[s] = ProviderRow(resp)
    /\ s \in DOMAIN profiles'
    /\ profiles'[s].cas_login = Lower(resp.login)
    /\ profiles'[s].cas_real_name = resp.cn
    /\ profiles'[s].cas_email = resp.mail
    /\ profiles'[s].last_reverified_at = now

\* this step changes the User row of s or the provider attributes of its
\* profile
AttributesChanged(s) ==
    \/ s \in DOMAIN users' /\ (s \notin DOMAIN users \/ users'[s] # users[s])
    \/ s \in DOMAIN profiles'
          /\ (\/ s \notin DOMAIN profiles
              \/ profiles'[s].cas_login # profiles[s].cas_login
              \/ profiles'[s].cas_real_name # profiles[s].cas_real_name
              \/ profiles'[s].cas_email # profiles[s].cas_email
              \/ profiles'[s].last_reverified_at # profiles[s].last_reverified_at)

\* C33: the User row and the profile are written as one unit: a step of a
\* callback that changes either of them for a subject is the save of that
\* subject's callback and leaves both with the new provider attributes; a
\* save that succeeds leaves both so, and every other step, a failed save
\* included, changes neither.
C33_UserAndProfileTogether ==
    [][\A p \in Procs :
          (cb[p].pc # "idle" /\ cb'[p] # cb[p])
             => /\ \A s \in Subjects :
                      AttributesChanged(s)
                         => /\ cb[p].pc = "save"
                            /\ s = ResultOf(p).discord_id
                            /\ ReflectsBoth(s, CasResponses[cb[p].cas])
                /\ SaveStep(p)
                      => ReflectsBoth(ResultOf(p).discord_id, CasResponses[cb[p].cas])]_vars

\* one subject holds a login in both tables; the callback of another subject
\* that was answered with the same login has failed in its save, and that
\* subject's User row is the one written when it joined
C33_Witness ==
    \E p \in Procs, o \in DOMAIN profiles :
       /\ cb[p].pc = "done" /\ cb[p].status = 500 /\ cb[p].success
       /\ ResultOf(p).discord_id # o
       /\ ResultOf(p).discord_id \notin DOMAIN profiles
       /\ users[ResultOf(p).discord_id].activity = 0
       /\ users[o] = ProviderRow(CasResponses[cb[p].cas])
       /\ profiles[o].cas_login = users[o].login

\* C34: a reverify_user invocation by an administrator leaves the member with
\* exactly the roles it held that are the everyone role or one of admin,
\* moderator, host, absolvent: none of these is removed and every other role
\* is.
C34_RemovesAllButProtected ==
    [][\A s \in Subjects :
          AdminReverifyStep(s)
             => roles'[s] = roles[s] \cap {everyone_role, admin_role_id,
                                           moderator_role_id, host_role_id,
                                           absolvent_role_id}]_vars

\* a verified member who held the student and the host role was sent to
\* re-verification and holds the host role and not the student role
C34_Witness ==
    \E s \in present :
       /\ hist.prior[s] # Null
       /\ {student_role_id, host_role_id} \subseteq TheOne(hist.prior[s])
       /\ requires_reverification(s)
       /\ roles[s] = {everyone_role, host_role_id}

\* the tokens whose record is the one request p matched
TokensOf(p) ==
    {i \in DOMAIN issued :
        StateHash(i, issued[i].discord_id) = TheOne(cb[p].matching).state}

\* request p asks the provider to validate its ticket in this step
ValidateStep(p) == cb[p].pc = "validate" /\ cb'[p].pc # "validate"

\* C35: for every token, the service the provider reads in the validation
\* request of the callback is the service it read in the login URL issued with
\* that token, service_url + "?state=" + raw token.
C35_SameServiceUrl ==
    [][\A p \in Procs :
          ValidateStep(p)
             => /\ TokensOf(p) # {}
                /\ \A i \in TokensOf(p) :
                      /\ ParamOf(validate_url(cb[p].ticket, cb[p].state), "service")
                            = ParamOf(auth_url(i), "service")
                      /\ ParamOf(auth_url(i), "service")
                            = service_url \o <<"?", "state", "=", TokenText(i)>>
                      /\ ParamOf(validate_url(cb[p].ticket, cb[p].state), "ticket")
                            = <<cb[p].ticket>>]_vars

\* the second token issued has been sent to the provider for validation
C35_Witness ==
    \E p \in Procs :
       /\ cb[p].pc \in {"audit", "done"}
       /\ cb[p].matching # Null
       /\ cb[p].state = 2
       /\ 2 \in TokensOf(p)

\* a token is issued in this step
IssueStep == Len(issued') = Len(issued) + 1

\* request p deletes the record it matched in this step
DeleteStep(p) == cb[p].pc = "delete" /\ cb'[p].pc # "delete"

\* the unexpired records in table tbl at time t that a request presenting
\* token i would match
RedeemableRows(i, tbl, t) ==
    {vs \in tbl : vs.expires_at > t /\ vs.state = StateHash(i, vs.discord_id)}

\* C36: issuing a token leaves every stored record in place, so that every
\* earlier unexpired token, of the same subject too, is still redeemable; the
\* delete of a redemption removes the record of the presented token and no
\* other record.
C36_TokensIndependent ==
    [][/\ IssueStep
             => /\ states \subseteq states'
                /\ \A i \in DOMAIN issued :
                      RedeemableRows(i, states', now') = RedeemableRows(i, states, now)
       /\ \A p \in Procs :
             DeleteStep(p)
                => /\ states \ states' \subseteq RedeemableRows(cb[p].state, states, 0)
                   /\ states' \subseteq states
                   /\ RedeemableRows(cb[p].state, states', 0) = {}]_vars

\* a subject had two tokens outstanding; the later one has been redeemed and
\* the earlier one is still stored and unexpired
C36_Witness ==
    \E i, j \in DOMAIN issued :
       /\ j < i
       /\ issued[i].discord_id = issued[j].discord_id
       /\ i \in hist.redeemed
       /\ RowOf(i) = {}
       /\ RedeemableRows(j, states, now) # {}

\* the token store, the User rows, the profiles and the roles stay as they are
StoresAndRolesUnchanged ==
    /\ states' = states
    /\ users' = users
    /\ profiles' = profiles
    /\ roles' = roles

\* C37: a callback whose token matches no unexpired record ends at the token
\* check, and none of its steps changes the token store, a User row, a
\* profile or a member's roles.
C37_UnmatchedChangesNothing ==
    [][\A p \in Procs :
          /\ (SelectStep(p) /\ Handled(cb'[p])
                /\ RedeemableRows(cb'[p].state, states, now) = {})
                => /\ StoresAndRolesUnchanged
                   /\ cb'[p].pc = "done"
                   /\ cb'[p].matching = Null
          /\ (cb[p].pc = "done" /\ Handled(cb[p]) /\ cb[p].matching = Null
                /\ cb'[p] # cb[p])
                => (StoresAndRolesUnchanged /\ cb'[p].pc = "idle")]_vars

\* an expired token was presented and rejected; its record is still stored,
\* and so is the profile of its subject
C37_Witness ==
    \E p \in Procs :
       /\ Rejected(cb[p])
       /\ cb[p].state \in DOMAIN issued
       /\ RowOf(cb[p].state) # {}
       /\ issued[cb[p].state].discord_id \in DOMAIN profiles

\* no request is being served
AllFinished == \A p \in Procs : cb[p].pc \in {"idle", "done"}

\* the last audit record with result success written for subject s
LastSuccess(s) ==
    LET ks == {k \in DOMAIN audit :
                  audit[k].result = "success" /\ audit[k].discord_id = Some(s)}
    IN  audit[CHOOSE k \in ks : \A j \in ks : j <= k]

SuccessAudited(s) ==
    \E k \in DOMAIN audit :
       audit[k].result = "success" /\ audit[k].discord_id = Some(s)

\* C38: when an audit record with result success exists for a subject and no
\* callback is still being served, the subject has a profile, and the profile
\* carries the login of the subject's last success record.
C38_SuccessAuditHasProfile ==
    AllFinished
       => \A s \in Subjects :
             SuccessAudited(s)
                => /\ s \in DOMAIN profiles
                   /\ profiles[s].cas_login = Lower(LastSuccess(s).login)

\* the caller holds neither the admin nor the moderator role
NotAdmin(callerRoles) ==
    admin_role_id \notin callerRoles /\ moderator_role_id \notin callerRoles

\* C39: a step that is a reverify_user invocation by a caller holding neither
\* the admin nor the moderator role changes nothing: no snapshot, no mark, no
\* role removed, no token issued.
C39_NonAdminChangesNothing ==
    [][\A c \in CallerRoleSets, s \in Subjects, r \in Reasons :
          (NotAdmin(c) /\ reverify_user(c, s, r))
             => /\ profiles' = profiles
                /\ roles' = roles
                /\ states' = states
                /\ issued' = issued]_vars

\* a verified member holds the student and the host role and a token can
\* still be issued: the state in which an invocation has something to change,
\* and in which the invocation of a caller without the roles leaves no trace
C39_Witness ==
    \E s \in present :
       /\ is_verified(s)
       /\ {student_role_id, host_role_id} \subseteq roles[s]
       /\ profiles[s].preserved_roles = Null
       /\ Len(issued) < AdminTokens
       /\ \E c \in CallerRoleSets : NotAdmin(c)
====
